---- MODULE Spec2Model ----
(***************************************************************************)
(* A model of addons/main/script_macros_common.hpp.                        *)
(*                                                                         *)
(* The header is processed top to bottom by the preprocessor (the "l<n>"   *)
(* steps below, one per conditional block, named after the source line     *)
(* that opens it).  Once it has been included, a script uses the macros:   *)
(* every statement of the script is one macro invocation, which is         *)
(* expanded with the macro table the header left behind and then run.      *)
(* Running a statement appends the calls it makes to CBA_fnc_log and       *)
(* CBA_fnc_error to the RPT log.                                           *)
(*                                                                         *)
(* Script text is kept as strings, token pasting (##) is string            *)
(* concatenation, and an expansion is a small syntax tree that Eval and    *)
(* Exec run.                                                               *)
(***************************************************************************)
EXTENDS Integers, Sequences, FiniteSets, TLC

\* Bounds of the model: the number of statements of a script of debugging
\* macros, of a script that deprecates functions and calls them, and of a script
\* that prepares and uses functions and global variables.
MaxStmts == 1
MaxCalls == 4
MaxPreps == 2

VARIABLES
    pc,          \* header line about to be processed, or "script" once included
    predefined,  \* the symbols #defined before the header is included
    defined,     \* the preprocessor's symbols that are currently #defined
    macros,      \* which #define of LOG / WARNING / TRACE_n was taken
    THIS_FILE_,  \* replacement text of THIS_FILE_
    COMPONENT_F, \* replacement text of COMPONENT_F
    PREFIX,      \* replacement text of PREFIX (defined by the including file)
    COMPONENT,   \* replacement text of COMPONENT (defined by the including file)
    MAINPREFIX,  \* replacement text of MAINPREFIX
    SUBPREFIX,   \* replacement text of SUBPREFIX
    MAINLOGIC,   \* replacement text of MAINLOGIC
    line,        \* number of script statements processed so far
    rpt,         \* the RPT log: the calls made to CBA_fnc_log / CBA_fnc_error
    last,        \* the statement run last: its invocation and what it did
    globals,     \* the script's global variables (functions installed by macros)
    newCalls,    \* the replacement functions that were run, with the _this each saw
    oldCalls     \* the calls made to functions installed by DEPRECATE / OBSOLETE

vars == <<pc, predefined, defined, macros, THIS_FILE_, COMPONENT_F, PREFIX,
          COMPONENT, MAINPREFIX, SUBPREFIX, MAINLOGIC, line, rpt, last, globals,
          newCalls, oldCalls>>

hdr == <<pc, predefined, defined, macros, THIS_FILE_, COMPONENT_F, PREFIX, COMPONENT,
         MAINPREFIX, SUBPREFIX, MAINLOGIC>>

\* What a script changes once the header has been included.
script == <<line, rpt, last, globals, newCalls, oldCalls>>

(***************************************************************************)
(* Inputs                                                                  *)
(***************************************************************************)
DebugModes == {"DEBUG_MODE_FULL", "DEBUG_MODE_NORMAL", "DEBUG_MODE_MINIMAL"}

\* The value nil of the scripting language, and what format prints for it.
NIL == "<nil>"

Messages == {"Initiated clog-dancing simulator.", "Value of frog not found"}
Titles == {"Value not found"}
TraceMessages == {"After takeoff"}

\* The file being preprocessed (__FILE__) and the text of THIS_FILE when the
\* including script defines it.
FILE == "x\\spon\\addons\\frogdancing\\fnc_dance.sqf"
THIS_FILE == "fnc_dance"

\* The replacement text of the symbols the including file may #define itself
\* before it includes the header.
Given == [MAINPREFIX |-> "z", SUBPREFIX |-> "mods", MAINLOGIC |-> "hq"]

\* The variables a TRACE_n invocation is given, A..H in order.
ArgNames == <<"_a", "_b", "_c", "_d", "_e", "_f", "_g", "_h">>

\* An argument of a macro invocation: its text and the value it evaluates to.
Arg(text, v) == [op |-> "arg", text |-> text, v |-> v]
Lit(s) == [op |-> "lit", v |-> s]

\* The arguments of TRACE_n: variable i holds the value i, except the variable
\* nilAt (if any), which is undefined.
TraceArgs(n, nilAt) ==
    [i \in 1..n |-> Arg(ArgNames[i], IF i = nilAt THEN NIL ELSE ToString(i))]

\* Which variable of a TRACE_n invocation is undefined: none (0) or the i-th.
TraceNilAt(n) == 0..n

\* The values of conditions, the numerals and the operators given to assertions.
Booleans == {"true", "false"}
Numerals == {"3", "5", "7"}
Operators == {">", "=="}

(***************************************************************************)
(* The header: conditional blocks, in source order                         *)
(***************************************************************************)
\* #ifndef MAINPREFIX / #define MAINPREFIX x
l42 ==
    /\ pc = "l42"
    /\ MAINPREFIX' = IF "MAINPREFIX" \notin defined THEN "x" ELSE MAINPREFIX
    /\ defined' = defined \cup {"MAINPREFIX"}
    /\ pc' = "l46"
    /\ UNCHANGED <<predefined, macros, THIS_FILE_, COMPONENT_F, PREFIX, COMPONENT,
                   SUBPREFIX, MAINLOGIC, script>>

\* #ifndef SUBPREFIX / #define SUBPREFIX addons
l46 ==
    /\ pc = "l46"
    /\ SUBPREFIX' = IF "SUBPREFIX" \notin defined THEN "addons" ELSE SUBPREFIX
    /\ defined' = defined \cup {"SUBPREFIX"}
    /\ pc' = "l50"
    /\ UNCHANGED <<predefined, macros, THIS_FILE_, COMPONENT_F, PREFIX, COMPONENT,
                   MAINPREFIX, MAINLOGIC, script>>

\* #ifndef MAINLOGIC / #define MAINLOGIC main
l50 ==
    /\ pc = "l50"
    /\ MAINLOGIC' = IF "MAINLOGIC" \notin defined THEN "main" ELSE MAINLOGIC
    /\ defined' = defined \cup {"MAINLOGIC"}
    /\ pc' = "l119"
    /\ UNCHANGED <<predefined, macros, THIS_FILE_, COMPONENT_F, PREFIX, COMPONENT,
                   MAINPREFIX, SUBPREFIX, script>>

\* #ifdef DEBUG_MODE_FULL / #define DEBUG_MODE_NORMAL
l119 ==
    /\ pc = "l119"
    /\ defined' = IF "DEBUG_MODE_FULL" \in defined
                  THEN defined \cup {"DEBUG_MODE_NORMAL"} ELSE defined
    /\ pc' = "l124"
    /\ UNCHANGED <<predefined, macros, THIS_FILE_, COMPONENT_F, PREFIX, COMPONENT,
                   MAINPREFIX, SUBPREFIX, MAINLOGIC, script>>

\* #ifdef DEBUG_MODE_NORMAL / #define DEBUG_MODE_MINIMAL
l124 ==
    /\ pc = "l124"
    /\ defined' = IF "DEBUG_MODE_NORMAL" \in defined
                  THEN defined \cup {"DEBUG_MODE_MINIMAL"} ELSE defined
    /\ pc' = "l129"
    /\ UNCHANGED <<predefined, macros, THIS_FILE_, COMPONENT_F, PREFIX, COMPONENT,
                   MAINPREFIX, SUBPREFIX, MAINLOGIC, script>>

\* Mutant of l129: the default defines DEBUG_MODE_MINIMAL only.
l129_OnlyMinimal ==
    /\ pc = "l129"
    /\ defined' = defined \cup {"DEBUG_MODE_MINIMAL"}
    /\ pc' = "l134"
    /\ UNCHANGED <<predefined, macros, THIS_FILE_, COMPONENT_F, PREFIX, COMPONENT,
                   MAINPREFIX, SUBPREFIX, MAINLOGIC, script>>

\* Mutant of l129: the default is taken when DEBUG_MODE_NORMAL is undefined.
l129_TestsNormal ==
    /\ pc = "l129"
    /\ defined' = IF "DEBUG_MODE_NORMAL" \notin defined
                  THEN defined \cup {"DEBUG_MODE_NORMAL", "DEBUG_MODE_MINIMAL"}
                  ELSE defined
    /\ pc' = "l134"
    /\ UNCHANGED <<predefined, macros, THIS_FILE_, COMPONENT_F, PREFIX, COMPONENT,
                   MAINPREFIX, SUBPREFIX, MAINLOGIC, script>>

\* #ifndef DEBUG_MODE_MINIMAL / #define DEBUG_MODE_NORMAL / #define DEBUG_MODE_MINIMAL
l129 ==
    /\ pc = "l129"
    /\ defined' = IF "DEBUG_MODE_MINIMAL" \notin defined
                  THEN defined \cup {"DEBUG_MODE_NORMAL", "DEBUG_MODE_MINIMAL"}
                  ELSE defined
    /\ pc' = "l134"
    /\ UNCHANGED <<predefined, macros, THIS_FILE_, COMPONENT_F, PREFIX, COMPONENT,
                   MAINPREFIX, SUBPREFIX, MAINLOGIC, script>>

\* #ifdef THIS_FILE / #define THIS_FILE_ 'THIS_FILE' / #else #define THIS_FILE_ __FILE__
l134 ==
    /\ pc = "l134"
    /\ THIS_FILE_' = IF "THIS_FILE" \in defined THEN THIS_FILE ELSE FILE
    /\ pc' = "l157"
    /\ UNCHANGED <<predefined, defined, macros, COMPONENT_F, PREFIX, COMPONENT,
                   MAINPREFIX, SUBPREFIX, MAINLOGIC, script>>

\* Mutant of l157: LOG is enabled from DEBUG_MODE_NORMAL on.
l157_TestsNormal ==
    /\ pc = "l157"
    /\ macros' = [macros EXCEPT !["LOG"] =
                    IF "DEBUG_MODE_NORMAL" \in defined THEN "on" ELSE "off"]
    /\ pc' = "l180"
    /\ UNCHANGED <<predefined, defined, THIS_FILE_, COMPONENT_F, PREFIX, COMPONENT,
                   MAINPREFIX, SUBPREFIX, MAINLOGIC, script>>

\* #ifdef DEBUG_MODE_FULL / #define LOG(MESSAGE) ... / #else #define LOG(MESSAGE)
l157 ==
    /\ pc = "l157"
    /\ macros' = [macros EXCEPT !["LOG"] =
                    IF "DEBUG_MODE_FULL" \in defined THEN "on" ELSE "off"]
    /\ pc' = "l180"
    /\ UNCHANGED <<predefined, defined, THIS_FILE_, COMPONENT_F, PREFIX, COMPONENT,
                   MAINPREFIX, SUBPREFIX, MAINLOGIC, script>>

\* Mutant of l180: WARNING is enabled from DEBUG_MODE_MINIMAL on.
l180_TestsMinimal ==
    /\ pc = "l180"
    /\ macros' = [macros EXCEPT !["WARNING"] =
                    IF "DEBUG_MODE_MINIMAL" \in defined THEN "on" ELSE "off"]
    /\ pc' = "l278"
    /\ UNCHANGED <<predefined, defined, THIS_FILE_, COMPONENT_F, PREFIX, COMPONENT,
                   MAINPREFIX, SUBPREFIX, MAINLOGIC, script>>

\* #ifdef DEBUG_MODE_NORMAL / #define WARNING(MESSAGE) ... / #else #define WARNING(MESSAGE)
l180 ==
    /\ pc = "l180"
    /\ macros' = [macros EXCEPT !["WARNING"] =
                    IF "DEBUG_MODE_NORMAL" \in defined THEN "on" ELSE "off"]
    /\ pc' = "l278"
    /\ UNCHANGED <<predefined, defined, THIS_FILE_, COMPONENT_F, PREFIX, COMPONENT,
                   MAINPREFIX, SUBPREFIX, MAINLOGIC, script>>

\* #ifdef DEBUG_MODE_FULL / #define TRACE_1 .. TRACE_8 / #else (all disabled)
l278 ==
    /\ pc = "l278"
    /\ macros' = [macros EXCEPT !["TRACE"] =
                    IF "DEBUG_MODE_FULL" \in defined THEN "on" ELSE "off"]
    /\ pc' = "l326"
    /\ UNCHANGED <<predefined, defined, THIS_FILE_, COMPONENT_F, PREFIX, COMPONENT,
                   MAINPREFIX, SUBPREFIX, MAINLOGIC, script>>

\* #define DOUBLES(var1,var2) ##var1##_##var2
DOUBLES(var1, var2) == var1 \o "_" \o var2

\* #define TRIPLES(var1,var2,var3) ##var1##_##var2##_##var3
TRIPLES(var1, var2, var3) == var1 \o "_" \o var2 \o "_" \o var3

\* #ifdef MODULAR / #define COMPONENT_F COMPONENT_C (= DOUBLES(c,COMPONENT))
\* #else #define COMPONENT_F COMPONENT
l326 ==
    /\ pc = "l326"
    /\ COMPONENT_F' = IF "MODULAR" \in defined
                      THEN DOUBLES("c", COMPONENT) ELSE COMPONENT
    /\ pc' = "script"
    /\ UNCHANGED <<predefined, defined, macros, THIS_FILE_, PREFIX, COMPONENT,
                   MAINPREFIX, SUBPREFIX, MAINLOGIC, script>>

Include == l42 \/ l46 \/ l50 \/ l119 \/ l124 \/ l129 \/ l134 \/ l157 \/ l180 \/ l278 \/ l326

NoMacros == [m \in {"LOG", "WARNING", "TRACE"} |-> "undef"]
NoGlobals == [g \in {} |-> NIL]
NoStatement == [macro |-> "", n |-> 0, nilAt |-> 0, title |-> "", msg |-> "",
                fn |-> "", this |-> NIL, locals |-> <<>>,
                made |-> <<>>, evals |-> 0, called |-> <<>>, ret |-> NIL]

\* The state when the header's first line is reached, with `pre` predefined.
Start(pre, prefix, component) ==
    /\ pc = "l42"
    /\ predefined = pre
    /\ defined = pre
    /\ macros = NoMacros
    /\ THIS_FILE_ = ""
    /\ COMPONENT_F = ""
    /\ PREFIX = prefix
    /\ COMPONENT = component
    /\ MAINPREFIX = IF "MAINPREFIX" \in pre THEN Given["MAINPREFIX"] ELSE ""
    /\ SUBPREFIX = IF "SUBPREFIX" \in pre THEN Given["SUBPREFIX"] ELSE ""
    /\ MAINLOGIC = IF "MAINLOGIC" \in pre THEN Given["MAINLOGIC"] ELSE ""
    /\ line = 0
    /\ rpt = <<>>
    /\ last = NoStatement
    /\ globals = NoGlobals
    /\ newCalls = <<>>
    /\ oldCalls = <<>>

(***************************************************************************)
(* The scripting language: the fragment the expansions use                 *)
(***************************************************************************)
\* [a, b, c] call fn, for the engine-side functions CBA_fnc_log / CBA_fnc_error
Call(fn, args) == [op |-> "call", fn |-> fn, args |-> args]

\* 'text' + X
Plus(l, r) == [op |-> "plus", l |-> l, r |-> r]

\* format [fmt, a1, a2, ...]; fmt is cut into its literal pieces and its %k
Format(fmt, args) == [op |-> "format", fmt |-> fmt, args |-> args]

\* not X, isNil X, str X and (A) OPERATOR (B)
Not(e) == [op |-> "not", e |-> e]
IsNil(e) == [op |-> "isNil", e |-> e]
StrOf(e) == [op |-> "str", e |-> e]
Binary(l, operator, r) == [op |-> "compare", l |-> l, operator |-> operator, r |-> r]

\* if (cond) then { stmts }
If(cond, stmts) == [op |-> "if", cond |-> cond, then |-> stmts]

\* The number a numeral of the script stands for.
Number(s) == CHOOSE k \in 0..99 : ToString(k) = s

\* The comparison operators of the scripting language.
Compare(a, operator, b) ==
    CASE operator = ">" -> a > b
      [] operator = "<" -> a < b
      [] operator = ">=" -> a >= b
      [] operator = "<=" -> a <= b
      [] operator = "==" -> a = b
      [] operator = "!=" -> a # b

\* The index k of a piece "%k" of a format string, 0 for a literal piece.
Placeholder(p) ==
    CASE p = "%1" -> 1 [] p = "%2" -> 2 [] p = "%3" -> 3
      [] p = "%4" -> 4 [] p = "%5" -> 5 [] p = "%6" -> 6
      [] p = "%7" -> 7 [] p = "%8" -> 8 [] p = "%9" -> 9
      [] OTHER -> 0

\* What format prints for a value: an undefined value prints as "any".
Str(v) == IF v = NIL THEN "any" ELSE v

RECURSIVE Subst(_, _)
Subst(fmt, vals) ==
    IF fmt = <<>> THEN ""
    ELSE LET p == Head(fmt)
             k == Placeholder(p)
         IN  (IF k = 0 THEN p ELSE IF k <= Len(vals) THEN Str(vals[k]) ELSE "")
             \o Subst(Tail(fmt), vals)

RECURSIVE Sum(_)
Sum(ns) == IF ns = <<>> THEN 0 ELSE Head(ns) + Sum(Tail(ns))

\* The value of an expression and the number of times it evaluated an argument
\* of the macro invocation it came from.
RECURSIVE Eval(_)
Eval(e) ==
    CASE e.op = "lit" -> [v |-> e.v, n |-> 0]
      [] e.op = "arg" -> [v |-> e.v, n |-> 1]
      [] e.op = "retnil" ->
            \* if (isNil{X}) then {nil} else {X}
            LET c == Eval(e.e)
            IN  IF c.v = NIL THEN [v |-> NIL, n |-> c.n]
                ELSE [v |-> c.v, n |-> c.n + c.n]
      [] e.op = "plus" ->
            LET a == Eval(e.l)
                b == Eval(e.r)
            IN  [v |-> a.v \o b.v, n |-> a.n + b.n]
      [] e.op = "format" ->
            LET ev == [i \in 1..Len(e.args) |-> Eval(e.args[i])]
            IN  [v |-> Subst(e.fmt, [i \in 1..Len(ev) |-> ev[i].v]),
                 n |-> Sum([i \in 1..Len(ev) |-> ev[i].n])]
      [] e.op = "not" ->
            LET c == Eval(e.e)
            IN  [v |-> IF c.v = "true" THEN "false" ELSE "true", n |-> c.n]
      [] e.op = "isNil" ->
            LET c == Eval(e.e)
            IN  [v |-> IF c.v = NIL THEN "true" ELSE "false", n |-> c.n]
      [] e.op = "str" ->
            LET c == Eval(e.e)
            IN  [v |-> Str(c.v), n |-> c.n]
      [] e.op = "compare" ->
            LET a == Eval(e.l)
                b == Eval(e.r)
            IN  [v |-> IF Compare(Number(a.v), e.operator, Number(b.v))
                       THEN "true" ELSE "false",
                 n |-> a.n + b.n]

\* What the replacement function of a deprecated function returns when it is
\* run with _this = this.
Result(fn, this) == fn \o "(" \o Str(this) \o ")"

RECURSIVE Exec(_, _)

\* One statement, run where _this is `this`: the log calls it made, the argument
\* evaluations, the script functions it ran (with the _this each saw) and its value.
RunStmt(s, this) ==
    CASE s.op = "call" ->
            LET ev == [i \in 1..Len(s.args) |-> Eval(s.args[i])]
            IN  [made |-> <<[fn |-> s.fn, args |-> [i \in 1..Len(ev) |-> ev[i].v]]>>,
                 evals |-> Sum([i \in 1..Len(ev) |-> ev[i].n]),
                 called |-> <<>>, ret |-> NIL]
      [] s.op = "ifNilThis" ->
            \* if (isNil "_this") then { call F } else { _this call F }
            LET c == IF this = NIL THEN s.then ELSE s.else
            IN  IF c.op = "bcall" /\ this = NIL
                \* a binary operator with an undefined operand is not run
                THEN [made |-> <<>>, evals |-> 0, called |-> <<>>, ret |-> NIL]
                \* `call F` leaves _this as it is; `_this call F` passes it
                ELSE [made |-> <<>>, evals |-> 0,
                      called |-> <<[fn |-> c.fn, this |-> this]>>,
                      ret |-> Result(c.fn, this)]
      [] s.op = "local" ->
            \* NAME = [...] call f, for an engine-side function that logs nothing
            LET ev == [i \in 1..Len(s.args) |-> Eval(s.args[i])]
            IN  [made |-> <<>>, evals |-> Sum([i \in 1..Len(ev) |-> ev[i].n]),
                 called |-> <<>>, ret |-> NIL]
      [] s.op = "if" ->
            LET c == Eval(s.cond)
                r == Exec(s.then, this)
            IN  IF c.v = "true"
                THEN [r EXCEPT !.evals = c.n + r.evals]
                ELSE [made |-> <<>>, evals |-> c.n, called |-> <<>>, ret |-> NIL]

\* A sequence of statements; its value is the value of its last statement.
Exec(stmts, this) ==
    IF stmts = <<>>
    THEN [made |-> <<>>, evals |-> 0, called |-> <<>>, ret |-> NIL]
    ELSE LET h == RunStmt(Head(stmts), this)
             t == Exec(Tail(stmts), this)
         IN  [made |-> h.made \o t.made, evals |-> h.evals + t.evals,
              called |-> h.called \o t.called,
              ret |-> IF Tail(stmts) = <<>> THEN h.ret ELSE t.ret]

(***************************************************************************)
(* Group: Debugging                                                        *)
(***************************************************************************)
\* __LINE__ of the statement being expanded
LINE == ToString(line + 1)

\* #define LOG(MESSAGE) [THIS_FILE_, __LINE__, MESSAGE] call CBA_fnc_log
\* #define LOG(MESSAGE) /* disabled */
LOG(MESSAGE) ==
    IF macros["LOG"] = "on"
    THEN <<Call("CBA_fnc_log", <<Lit(THIS_FILE_), Lit(LINE), MESSAGE>>)>>
    ELSE <<>>

\* #define WARNING(MESSAGE) [THIS_FILE_, __LINE__, ('WARNING: ' + MESSAGE)] call CBA_fnc_log
\* #define WARNING(MESSAGE) /* disabled */
WARNING(MESSAGE) ==
    IF macros["WARNING"] = "on"
    THEN <<Call("CBA_fnc_log",
                <<Lit(THIS_FILE_), Lit(LINE), Plus(Lit("WARNING: "), MESSAGE)>>)>>
    ELSE <<>>

\* Mutant of ERROR: defined beside WARNING, in the DEBUG_MODE_NORMAL block.
ERROR_WhenWarning(MESSAGE) ==
    IF macros["WARNING"] = "on"
    THEN <<Call("CBA_fnc_error", <<Lit(THIS_FILE_), Lit(LINE), Lit("ERROR"), MESSAGE>>)>>
    ELSE <<>>

\* #define ERROR(MESSAGE) [THIS_FILE_, __LINE__, "ERROR", MESSAGE] call CBA_fnc_error;
ERROR(MESSAGE) ==
    <<Call("CBA_fnc_error", <<Lit(THIS_FILE_), Lit(LINE), Lit("ERROR"), MESSAGE>>)>>

\* #define ERROR_WITH_TITLE(TITLE,MESSAGE) [THIS_FILE_, __LINE__, TITLE, MESSAGE] call CBA_fnc_error;
ERROR_WITH_TITLE(TITLE, MESSAGE) ==
    <<Call("CBA_fnc_error", <<Lit(THIS_FILE_), Lit(LINE), TITLE, MESSAGE>>)>>

\* #define RETNIL(VARIABLE) if (isNil{VARIABLE}) then {nil} else {VARIABLE}
RETNIL(VAR) == [op |-> "retnil", e |-> VAR]

\* [THIS_FILE_, __LINE__, format [...]] call CBA_fnc_log, or nothing when disabled
TraceCall(fmt, args) ==
    IF macros["TRACE"] = "on"
    THEN <<Call("CBA_fnc_log", <<Lit(THIS_FILE_), Lit(LINE), Format(fmt, args)>>)>>
    ELSE <<>>

\* format ['%1: A=%2', MESSAGE, RETNIL(A)]
TRACE_1(MESSAGE, A) ==
    TraceCall(<<"%1", ": ", A.text, "=", "%2">>, <<MESSAGE, RETNIL(A)>>)

\* format ['%1: A=%2, B=%3', MESSAGE, RETNIL(A), RETNIL(B)]
TRACE_2(MESSAGE, A, B) ==
    TraceCall(<<"%1", ": ", A.text, "=", "%2", ", ", B.text, "=", "%3">>,
              <<MESSAGE, RETNIL(A), RETNIL(B)>>)

TRACE_3(MESSAGE, A, B, C) ==
    TraceCall(<<"%1", ": ", A.text, "=", "%2", ", ", B.text, "=", "%3", ", ",
                C.text, "=", "%4">>,
              <<MESSAGE, RETNIL(A), RETNIL(B), RETNIL(C)>>)

TRACE_4(MESSAGE, A, B, C, D) ==
    TraceCall(<<"%1", ": ", A.text, "=", "%2", ", ", B.text, "=", "%3", ", ",
                C.text, "=", "%4", ", ", D.text, "=", "%5">>,
              <<MESSAGE, RETNIL(A), RETNIL(B), RETNIL(C), RETNIL(D)>>)

TRACE_5(MESSAGE, A, B, C, D, E) ==
    TraceCall(<<"%1", ": ", A.text, "=", "%2", ", ", B.text, "=", "%3", ", ",
                C.text, "=", "%4", ", ", D.text, "=", "%5", ", ",
                E.text, "=", "%6">>,
              <<MESSAGE, RETNIL(A), RETNIL(B), RETNIL(C), RETNIL(D), RETNIL(E)>>)

TRACE_6(MESSAGE, A, B, C, D, E, F) ==
    TraceCall(<<"%1", ": ", A.text, "=", "%2", ", ", B.text, "=", "%3", ", ",
                C.text, "=", "%4", ", ", D.text, "=", "%5", ", ",
                E.text, "=", "%6", ", ", F.text, "=", "%7">>,
              <<MESSAGE, RETNIL(A), RETNIL(B), RETNIL(C), RETNIL(D), RETNIL(E),
                RETNIL(F)>>)

TRACE_7(MESSAGE, A, B, C, D, E, F, G) ==
    TraceCall(<<"%1", ": ", A.text, "=", "%2", ", ", B.text, "=", "%3", ", ",
                C.text, "=", "%4", ", ", D.text, "=", "%5", ", ",
                E.text, "=", "%6", ", ", F.text, "=", "%7", ", ",
                G.text, "=", "%8">>,
              <<MESSAGE, RETNIL(A), RETNIL(B), RETNIL(C), RETNIL(D), RETNIL(E),
                RETNIL(F), RETNIL(G)>>)

TRACE_8(MESSAGE, A, B, C, D, E, F, G, H) ==
    TraceCall(<<"%1", ": ", A.text, "=", "%2", ", ", B.text, "=", "%3", ", ",
                C.text, "=", "%4", ", ", D.text, "=", "%5", ", ",
                E.text, "=", "%6", ", ", F.text, "=", "%7", ", ",
                G.text, "=", "%8", ", ", H.text, "=", "%9">>,
              <<MESSAGE, RETNIL(A), RETNIL(B), RETNIL(C), RETNIL(D), RETNIL(E),
                RETNIL(F), RETNIL(G), RETNIL(H)>>)

\* The expansion of TRACE_n(MESSAGE, a[1], ..., a[n])
TRACE_n(n, MESSAGE, a) ==
    CASE n = 1 -> TRACE_1(MESSAGE, a[1])
      [] n = 2 -> TRACE_2(MESSAGE, a[1], a[2])
      [] n = 3 -> TRACE_3(MESSAGE, a[1], a[2], a[3])
      [] n = 4 -> TRACE_4(MESSAGE, a[1], a[2], a[3], a[4])
      [] n = 5 -> TRACE_5(MESSAGE, a[1], a[2], a[3], a[4], a[5])
      [] n = 6 -> TRACE_6(MESSAGE, a[1], a[2], a[3], a[4], a[5], a[6])
      [] n = 7 -> TRACE_7(MESSAGE, a[1], a[2], a[3], a[4], a[5], a[6], a[7])
      [] n = 8 -> TRACE_8(MESSAGE, a[1], a[2], a[3], a[4], a[5], a[6], a[7], a[8])

(***************************************************************************)
(* Group: Params                                                           *)
(***************************************************************************)
\* The _this a function is called with: an array, a single value, or nothing.
Array(v) == [type |-> "ARRAY", v |-> v]
Scalar(v) == [type |-> "SCALAR", v |-> v]
NoThis == [type |-> "NIL", v |-> NIL]

\* #define IS_ARRAY(VAR) ((typeName (VAR)) == "ARRAY")
IS_ARRAY(VAR) == VAR.type = "ARRAY"

\* (ARRAY) select i
Select(ARRAY, i) ==
    IF IS_ARRAY(ARRAY) /\ i < Len(ARRAY.v) THEN ARRAY.v[i + 1] ELSE NIL

\* NAME = value, for a local variable
Local(NAME, v) == [name |-> NAME, v |-> v]

\* #define EXPLODE_2(ARRAY,A,B) A = (ARRAY) select 0; B = (ARRAY) select 1
\* #define EXPLODE_3(ARRAY,A,B,C) EXPLODE_2(ARRAY,A,B); C = (ARRAY) select 2
\* ... and so on to EXPLODE_8, each the one before it and then one more variable.
\* EXPLODE_n(n, ARRAY, a) is EXPLODE_n(ARRAY,a[1],...,a[n]), for n in 2..8.
RECURSIVE EXPLODE_n(_, _, _)
EXPLODE_n(n, ARRAY, a) ==
    IF n = 2
    THEN <<Local(a[1], Select(ARRAY, 0)), Local(a[2], Select(ARRAY, 1))>>
    ELSE EXPLODE_n(n - 1, ARRAY, a) \o <<Local(a[n], Select(ARRAY, n - 1))>>

\* The variables `locals` assigned, as arguments of the TRACE_n that follows.
Vars(locals) == [i \in 1..Len(locals) |-> Arg(locals[i].name, locals[i].v)]

\* #define PARAMS_1(A) private #A;
\*     A = if (IS_ARRAY(_this)) then {_this select 0} else {_this}; TRACE_1("PARAMS_1",A)
PARAMS_1(this, A) ==
    LET locals == <<Local(A, IF IS_ARRAY(this) THEN Select(this, 0) ELSE this.v)>>
    IN  [locals |-> locals, stmts |-> TRACE_n(1, Lit("PARAMS_1"), Vars(locals))]

\* #define PARAMS_2(A,B) private [#A, #B]; EXPLODE_2(_this,A,B); TRACE_2("PARAMS_2",A,B)
\* ... and so on to PARAMS_8, each with the EXPLODE_n and the TRACE_n of its n.
\* PARAMS_n(n, this, a) is the expansion of PARAMS_n(a[1],...,a[n]), for n in 1..8,
\* in a function called with `this`.
PARAMS_n(n, this, a) ==
    IF n = 1 THEN PARAMS_1(this, a[1])
    ELSE LET locals == EXPLODE_n(n, this, a)
         IN  [locals |-> locals,
              stmts |-> TRACE_n(n, Lit("PARAMS_" \o ToString(n)), Vars(locals))]

\* NAME = [_this, args...] call f: the statement evaluates each of args once
SetLocal(NAME, args) == [op |-> "local", name |-> NAME, args |-> args]

\* [params, index, default] call CBA_fnc_defaultParam: the default when the array
\* is too short or the value at the index is nil (documented at DEFAULT_PARAM)
CBA_fnc_defaultParam(params, index, default) ==
    IF Select(params, index) = NIL THEN default ELSE Select(params, index)

\* #define DEFAULT_PARAM(INDEX,NAME,DEF_VALUE) private #NAME;
\*     NAME = [RETNIL(_this), INDEX, DEF_VALUE] call CBA_fnc_defaultParam;
\*     TRACE_3("DEFAULT_PARAM",INDEX,NAME,DEF_VALUE)
DEFAULT_PARAM(this, INDEX, NAME, DEF_VALUE) ==
    LET locals == <<Local(NAME, CBA_fnc_defaultParam(this, Number(INDEX.v),
                                                     DEF_VALUE.v))>>
    IN  [locals |-> locals,
         stmts |-> <<SetLocal(NAME, <<INDEX, DEF_VALUE>>)>>
                   \o TRACE_3(Lit("DEFAULT_PARAM"), INDEX, Vars(locals)[1], DEF_VALUE)]

\* What a function that starts with PARAMS_n is called with: n values, or for
\* PARAMS_1 also a single value outside an array.
ParamsThis(n) == IF n = 1 THEN {"ARRAY", "SCALAR"} ELSE {"ARRAY"}

\* What a function that uses DEFAULT_PARAM(1,...) is called with.
DefaultParamThis ==
    <<NoThis, Array(<<"fred">>), Array(<<"fred", NIL>>), Array(<<"fred", "4">>)>>

(***************************************************************************)
(* Group: Assertions                                                       *)
(***************************************************************************)
\* #define ASSERTION_ERROR(MESSAGE) ERROR_WITH_TITLE("Assertion failed!",MESSAGE)
ASSERTION_ERROR(MESSAGE) == ERROR_WITH_TITLE(Lit("Assertion failed!"), MESSAGE)

\* #define ASSERT_TRUE(CONDITION,MESSAGE) if (not (CONDITION)) then
\*     { ASSERTION_ERROR('Assertion (CONDITION) failed!\n\n' + (MESSAGE)); }
ASSERT_TRUE(CONDITION, MESSAGE) ==
    <<If(Not(CONDITION),
         ASSERTION_ERROR(Plus(Lit("Assertion (" \o CONDITION.text \o ") failed!\\n\\n"),
                              MESSAGE)))>>

\* #define ASSERT_FALSE(CONDITION,MESSAGE) if (CONDITION) then
\*     { ASSERTION_ERROR('Assertion (not (CONDITION)) failed!\n\n' + (MESSAGE)) }
ASSERT_FALSE(CONDITION, MESSAGE) ==
    <<If(CONDITION,
         ASSERTION_ERROR(Plus(Lit("Assertion (not (" \o CONDITION.text
                                  \o ")) failed!\\n\\n"),
                              MESSAGE)))>>

\* #define ASSERT_OP(A,OPERATOR,B,MESSAGE) if (not ((A) OPERATOR (B))) then
\*     { ASSERTION_ERROR('Assertion (A OPERATOR B) failed!\n' + 'A: ' + (str (A)) + '\n'
\*                       + 'B: ' + (str (B)) + "\n\n" + (MESSAGE)); }
ASSERT_OP(A, OPERATOR, B, MESSAGE) ==
    <<If(Not(Binary(A, OPERATOR, B)),
         ASSERTION_ERROR(
            Plus(Plus(Plus(Plus(Plus(Plus(Plus(
                Lit("Assertion (" \o A.text \o " " \o OPERATOR \o " " \o B.text
                    \o ") failed!\\n"),
                Lit(A.text \o ": ")), StrOf(A)), Lit("\\n")),
                Lit(B.text \o ": ")), StrOf(B)), Lit("\\n\\n")),
                MESSAGE)))>>

\* #define ASSERT_DEFINED(VARIABLE,MESSAGE) if (isNil VARIABLE) then
\*     { ASSERTION_ERROR('Assertion (VARIABLE is defined) failed!\n\n' + (MESSAGE)); }
ASSERT_DEFINED(VAR, MESSAGE) ==
    <<If(IsNil(VAR),
         ASSERTION_ERROR(Plus(Lit("Assertion (" \o VAR.text \o " is defined) failed!\\n\\n"),
                              MESSAGE)))>>

(***************************************************************************)
(* A script that uses the debugging macros, one invocation per line        *)
(***************************************************************************)
\* Run the expansion `stmts` of the invocation `inv` as the script's next statement.
Statement(inv, stmts) ==
    LET r == Exec(stmts, NIL)
    IN  /\ rpt' = rpt \o r.made
        /\ last' = [inv EXCEPT !.made = r.made, !.evals = r.evals,
                               !.called = r.called, !.ret = r.ret]
        /\ newCalls' = newCalls \o r.called
        /\ line' = line + 1

RunLOG ==
    /\ pc = "script" /\ line < MaxStmts
    /\ \E m \in Messages :
          Statement([NoStatement EXCEPT !.macro = "LOG", !.msg = m],
                    LOG(Arg("MESSAGE", m)))
    /\ UNCHANGED <<hdr, globals, oldCalls>>

RunWARNING ==
    /\ pc = "script" /\ line < MaxStmts
    /\ \E m \in Messages :
          Statement([NoStatement EXCEPT !.macro = "WARNING", !.msg = m],
                    WARNING(Arg("MESSAGE", m)))
    /\ UNCHANGED <<hdr, globals, oldCalls>>

RunERROR ==
    /\ pc = "script" /\ line < MaxStmts
    /\ \E m \in Messages :
          Statement([NoStatement EXCEPT !.macro = "ERROR", !.msg = m],
                    ERROR(Arg("MESSAGE", m)))
    /\ UNCHANGED <<hdr, globals, oldCalls>>

RunERROR_WITH_TITLE ==
    /\ pc = "script" /\ line < MaxStmts
    /\ \E t \in Titles, m \in Messages :
          Statement([NoStatement EXCEPT !.macro = "ERROR_WITH_TITLE",
                                        !.title = t, !.msg = m],
                    ERROR_WITH_TITLE(Arg("TITLE", t), Arg("MESSAGE", m)))
    /\ UNCHANGED <<hdr, globals, oldCalls>>

RunTRACE ==
    /\ pc = "script" /\ line < MaxStmts
    /\ \E n \in 1..8, m \in TraceMessages :
          \E nilAt \in TraceNilAt(n) :
              Statement([NoStatement EXCEPT !.macro = "TRACE", !.n = n,
                                            !.nilAt = nilAt, !.msg = m],
                        TRACE_n(n, Arg("MESSAGE", m), TraceArgs(n, nilAt)))
    /\ UNCHANGED <<hdr, globals, oldCalls>>

\* PARAMS_n(_a, ...), first statement of a function called with n values
\* (or, for PARAMS_1, with a single value that is not an array)
RunPARAMS ==
    /\ pc = "script" /\ line < MaxStmts
    /\ \E n \in 1..8 :
          \E nilAt \in TraceNilAt(n), type \in ParamsThis(n) :
              /\ (type = "SCALAR" => nilAt = 0)
              /\ LET this == IF type = "SCALAR" THEN Scalar("1")
                             ELSE Array([i \in 1..n |-> IF i = nilAt THEN NIL
                                                        ELSE ToString(i)])
                     x == PARAMS_n(n, this, ArgNames)
                 IN  Statement([NoStatement EXCEPT !.macro = "PARAMS", !.n = n,
                                    !.nilAt = nilAt, !.title = type,
                                    !.msg = "PARAMS_" \o ToString(n),
                                    !.locals = x.locals],
                               x.stmts)
    /\ UNCHANGED <<hdr, globals, oldCalls>>

\* DEFAULT_PARAM(1,_numberOfLegs,2), in a function called with nothing, with one
\* value, with an undefined second value or with two values
RunDEFAULT_PARAM ==
    /\ pc = "script" /\ line < MaxStmts
    /\ \E k \in 1..Len(DefaultParamThis) :
          LET x == DEFAULT_PARAM(DefaultParamThis[k], Arg("1", "1"),
                                 "_numberOfLegs", Arg("2", "2"))
          IN  Statement([NoStatement EXCEPT !.macro = "DEFAULT_PARAM", !.n = k,
                             !.msg = "DEFAULT_PARAM", !.locals = x.locals],
                        x.stmts)
    /\ UNCHANGED <<hdr, globals, oldCalls>>

RunASSERTION_ERROR ==
    /\ pc = "script" /\ line < MaxStmts
    /\ \E m \in Messages :
          Statement([NoStatement EXCEPT !.macro = "ASSERTION_ERROR", !.msg = m],
                    ASSERTION_ERROR(Arg("MESSAGE", m)))
    /\ UNCHANGED <<hdr, globals, oldCalls>>

\* ASSERT_TRUE(_frogIsDead,MESSAGE), with _frogIsDead true or false
RunASSERT_TRUE ==
    /\ pc = "script" /\ line < MaxStmts
    /\ \E c \in Booleans, m \in Messages :
          Statement([NoStatement EXCEPT !.macro = "ASSERT_TRUE", !.msg = m,
                                        !.this = c],
                    ASSERT_TRUE(Arg("_frogIsDead", c), Arg("MESSAGE", m)))
    /\ UNCHANGED <<hdr, globals, oldCalls>>

\* ASSERT_FALSE(_frogIsDead,MESSAGE)
RunASSERT_FALSE ==
    /\ pc = "script" /\ line < MaxStmts
    /\ \E c \in Booleans, m \in Messages :
          Statement([NoStatement EXCEPT !.macro = "ASSERT_FALSE", !.msg = m,
                                        !.this = c],
                    ASSERT_FALSE(Arg("_frogIsDead", c), Arg("MESSAGE", m)))
    /\ UNCHANGED <<hdr, globals, oldCalls>>

\* ASSERT_OP(_fish,OPERATOR,5,MESSAGE)
RunASSERT_OP ==
    /\ pc = "script" /\ line < MaxStmts
    /\ \E a \in Numerals, operator \in Operators, m \in Messages :
          Statement([NoStatement EXCEPT !.macro = "ASSERT_OP", !.msg = m,
                                        !.this = a, !.title = operator],
                    ASSERT_OP(Arg("_fish", a), operator, Arg("5", "5"),
                              Arg("MESSAGE", m)))
    /\ UNCHANGED <<hdr, globals, oldCalls>>

\* ASSERT_DEFINED("_anUndefinedVar",MESSAGE), with the variable undefined or set
RunASSERT_DEFINED ==
    /\ pc = "script" /\ line < MaxStmts
    /\ \E v \in {NIL, "1"}, m \in Messages :
          Statement([NoStatement EXCEPT !.macro = "ASSERT_DEFINED", !.msg = m,
                                        !.this = v],
                    ASSERT_DEFINED(Arg("\"_anUndefinedVar\"", v), Arg("MESSAGE", m)))
    /\ UNCHANGED <<hdr, globals, oldCalls>>

Init == \E pre \in SUBSET DebugModes :
            Start(pre, "SPON", "FrogDancing")

Next ==
    Include \/ RunLOG \/ RunWARNING \/ RunERROR \/ RunERROR_WITH_TITLE \/ RunTRACE
            \/ RunPARAMS \/ RunDEFAULT_PARAM \/ RunASSERTION_ERROR \/ RunASSERT_TRUE
            \/ RunASSERT_FALSE \/ RunASSERT_OP \/ RunASSERT_DEFINED

Spec == Init /\ [][Next]_vars

(***************************************************************************)
(* Group: General -- identifiers and paths                                 *)
(***************************************************************************)
\* #define ADDON DOUBLES(PREFIX,COMPONENT)
ADDON == DOUBLES(PREFIX, COMPONENT)

\* A number, an array of numbers, and the game logic a create command returns.
Num(k) == [op |-> "num", v |-> k]
List(v) == [op |-> "array", v |-> v]
Logic(command, class) ==
    [op |-> "logic", command |-> command, class |-> class, public |-> FALSE,
     variables |-> <<>>]

\* a + b of the scripting language: numbers are added, arrays are joined
PlusValue(a, b) ==
    CASE a.op = "num" -> Num(a.v + b.v)
      [] a.op = "array" -> List(a.v \o b.v)

\* a - b: numbers are subtracted, every element of b is removed from an array a
MinusValue(a, b) ==
    CASE a.op = "num" -> Num(a.v - b.v)
      [] a.op = "array" ->
            List(SelectSeq(a.v, LAMBDA x : \A j \in 1..Len(b.v) : b.v[j] # x))

\* An assignment statement: name = value
Assignment(name, value) == [op |-> "assign", name |-> name, value |-> value]

\* #define INC(var) var = (var) + 1
INC(var) == Assignment(var, PlusValue(globals[var], Num(1)))

\* #define DEC(var) var = (var) - 1
DEC(var) == Assignment(var, MinusValue(globals[var], Num(1)))

\* #define ADD(var1,var2) var1 = (var1) + (var2)
ADD(var1, var2) == Assignment(var1, PlusValue(globals[var1], var2))

\* #define SUB(var1,var2) var1 = (var1) - (var2)
SUB(var1, var2) == Assignment(var1, MinusValue(globals[var1], var2))

\* #define REM(var1,var2) SUB(var1,[var2])
REM(var1, var2) == SUB(var1, List(<<var2>>))

\* #define PUSH(var1,var2) var1 set [count (var1), var2]
PUSH(var1, var2) ==
    Assignment(var1, List([i \in 1..Len(globals[var1].v) + 1 |->
                              IF i = Len(globals[var1].v) + 1 THEN var2
                              ELSE globals[var1].v[i]]))

\* #define ISNILS(VARIABLE,DEFAULT_VALUE) if (isNil #VARIABLE) then { ##VARIABLE = ##DEFAULT_VALUE }
ISNILS(VAR, DEFAULT_VALUE) ==
    [op |-> "ifNil", name |-> VAR, then |-> Assignment(VAR, DEFAULT_VALUE)]

\* #define ISNILS2(var1,var2,var3,var4) ISNILS(TRIPLES(var1,var2,var3),var4)
ISNILS2(var1, var2, var3, var4) == ISNILS(TRIPLES(var1, var2, var3), var4)

\* #define ISNILS3(var1,var2,var3) ISNILS(DOUBLES(var1,var2),var3)
ISNILS3(var1, var2, var3) == ISNILS(DOUBLES(var1, var2), var3)

\* #define ISNIL(var1,var2) ISNILS2(PREFIX,COMPONENT,var1,var2)
ISNIL(var1, var2) == ISNILS2(PREFIX, COMPONENT, var1, var2)

\* #define ISNILMAIN(var1,var2) ISNILS3(PREFIX,var1,var2)
ISNILMAIN(var1, var2) == ISNILS3(PREFIX, var1, var2)

\* #define CREATELOGICS(var1,var2) ##var1##_##var2## =
\*     ([sideLogic] call CBA_fnc_getSharedGroup) createUnit ["LOGIC", [0, 0, 0], [], 0, "NONE"]
CREATELOGICS(var1, var2) ==
    <<Assignment(var1 \o "_" \o var2, Logic("createUnit", "LOGIC"))>>

\* #define CREATELOGICLOCALS(var1,var2) ##var1##_##var2## = "LOGIC" createVehicleLocal [0, 0, 0]
CREATELOGICLOCALS(var1, var2) ==
    <<Assignment(var1 \o "_" \o var2, Logic("createVehicleLocal", "LOGIC"))>>

\* #define CREATELOGICGLOBALS(var1,var2) ##var1##_##var2## = (...) createUnit ["LOGIC", ...];
\*     publicVariable QUOTE(DOUBLES(var1,var2))
CREATELOGICGLOBALS(var1, var2) ==
    <<Assignment(var1 \o "_" \o var2, Logic("createUnit", "LOGIC")),
      [op |-> "publicVariable", name |-> DOUBLES(var1, var2)]>>

\* #define CREATELOGICGLOBALTESTS(var1,var2) ##var1##_##var2## =
\*     (...) createUnit [QUOTE(TRIPLES(PREFIX,COMPONENT,logic)), [0, 0, 0], [], 0, "NONE"]
CREATELOGICGLOBALTESTS(var1, var2) ==
    <<Assignment(var1 \o "_" \o var2,
                 Logic("createUnit", TRIPLES(PREFIX, COMPONENT, "logic")))>>

\* #define PATHTO_SYS(var1,var2,var3) MAINPREFIX\##var1\SUBPREFIX\##var2\##var3.sqf
PATHTO_SYS(var1, var2, var3) ==
    MAINPREFIX \o "\\" \o var1 \o "\\" \o SUBPREFIX \o "\\" \o var2 \o "\\" \o var3 \o ".sqf"

\* #define COMPILE_FILE_SYS(var1,var2,var3) compile preProcessFileLineNumbers 'PATHTO_SYS(var1,var2,var3)'
COMPILE_FILE_SYS(var1, var2, var3) ==
    [op |-> "compile", file |-> PATHTO_SYS(var1, var2, var3)]

\* #define GVARS(var1,var2,var3) ##var1##_##var2##_##var3
GVARS(var1, var2, var3) == var1 \o "_" \o var2 \o "_" \o var3

\* #define GVARMAINS(var1,var2) ##var1##_##var2##
GVARMAINS(var1, var2) == var1 \o "_" \o var2

\* Mutant of IfNilThis: _this call F in both branches.
IfNilThis_AlwaysThis(F) ==
    [op |-> "ifNilThis", then |-> [op |-> "bcall", fn |-> F],
     else |-> [op |-> "bcall", fn |-> F]]

\* if (isNil "_this") then { call F } else { _this call F }
IfNilThis(F) == [op |-> "ifNilThis", then |-> [op |-> "ucall", fn |-> F],
                 else |-> [op |-> "bcall", fn |-> F]]

\* #define PREPMAIN_SYS(var1,var2,var3) ##var1##_fnc_##var3 = { ##var1##_fnc_##var3 =
\*   COMPILE_FILE_SYS(var1,var2,DOUBLES(fnc,var3)); if (isNil "_this") then { call ... } else { _this call ... } }
PREPMAIN_SYS(var1, var2, var3) ==
    Assignment(var1 \o "_fnc_" \o var3,
               [op |-> "code",
                body |-> <<Assignment(var1 \o "_fnc_" \o var3,
                                      COMPILE_FILE_SYS(var1, var2, DOUBLES("fnc", var3))),
                           IfNilThis(var1 \o "_fnc_" \o var3)>>])

\* #define SETVARS(var1,var2) ##var1##_##var2 setVariable
\* followed by the script's [key, value]
SETVARS(var1, var2, key, value) ==
    [op |-> "setVariable", name |-> var1 \o "_" \o var2, key |-> key, value |-> value]

\* #define SETVARMAINS(var1) SETVARS(var1,MAINLOGIC)
SETVARMAINS(var1, key, value) == SETVARS(var1, MAINLOGIC, key, value)

\* #define PREP_SYS(var1,var2,var3) ##var1##_##var2##_fnc_##var3 =
\*   COMPILE_FILE_SYS(var1,var2,DOUBLES(fnc,var3))
PREP_SYS(var1, var2, var3) ==
    Assignment(var1 \o "_" \o var2 \o "_fnc_" \o var3,
               COMPILE_FILE_SYS(var1, var2, DOUBLES("fnc", var3)))

\* #define PREP_SYS2(var1,var2,var3,var4) ##var1##_##var2##_fnc_##var4 =
\*   COMPILE_FILE_SYS(var1,var3,DOUBLES(fnc,var4))
PREP_SYS2(var1, var2, var3, var4) ==
    Assignment(var1 \o "_" \o var2 \o "_fnc_" \o var4,
               COMPILE_FILE_SYS(var1, var3, DOUBLES("fnc", var4)))

\* #define GVAR(var1) GVARS(PREFIX,COMPONENT,var1)
GVAR(var1) == GVARS(PREFIX, COMPONENT, var1)

\* #define GVARMAIN(var1) GVARMAINS(PREFIX,var1)
GVARMAIN(var1) == GVARMAINS(PREFIX, var1)

\* #define CREATELOGIC CREATELOGICS(PREFIX,COMPONENT)
CREATELOGIC == CREATELOGICS(PREFIX, COMPONENT)

\* #define CREATELOGICGLOBAL CREATELOGICGLOBALS(PREFIX,COMPONENT)
CREATELOGICGLOBAL == CREATELOGICGLOBALS(PREFIX, COMPONENT)

\* #define CREATELOGICGLOBALTEST CREATELOGICGLOBALTESTS(PREFIX,COMPONENT)
CREATELOGICGLOBALTEST == CREATELOGICGLOBALTESTS(PREFIX, COMPONENT)

\* #define CREATELOGICLOCAL CREATELOGICLOCALS(PREFIX,COMPONENT)
CREATELOGICLOCAL == CREATELOGICLOCALS(PREFIX, COMPONENT)

\* #define CREATELOGICMAIN CREATELOGICS(PREFIX,MAINLOGIC)
CREATELOGICMAIN == CREATELOGICS(PREFIX, MAINLOGIC)

\* #define SETVAR SETVARS(PREFIX,COMPONENT)
SETVAR(key, value) == SETVARS(PREFIX, COMPONENT, key, value)

\* #define SETVARMAIN SETVARMAINS(PREFIX)
SETVARMAIN(key, value) == SETVARMAINS(PREFIX, key, value)

\* #define IFCOUNT(var1,var2,var3) if (count ##var1 > ##var2) then { ##var3 = ##var1 select ##var2 };
IFCOUNT(var1, var2, var3) ==
    [op |-> "ifCount", array |-> var1, index |-> var2, name |-> var3]

\* #define PREP(var1) PREP_SYS2(PREFIX,COMPONENT,COMPONENT_F,var1)
PREP(var1) == PREP_SYS2(PREFIX, COMPONENT, COMPONENT_F, var1)

\* #define PREPMAIN(var1) PREPMAIN_SYS(PREFIX,COMPONENT_F,var1)
PREPMAIN(var1) == PREPMAIN_SYS(PREFIX, COMPONENT_F, var1)

\* Mutant of FUNC: built from COMPONENT_F, as the path of the file is.
FUNC_ComponentF(var1) == TRIPLES(DOUBLES(PREFIX, COMPONENT_F), "fnc", var1)

\* #define FUNC(var1) TRIPLES(DOUBLES(PREFIX,COMPONENT),fnc,var1)
FUNC(var1) == TRIPLES(DOUBLES(PREFIX, COMPONENT), "fnc", var1)

\* #define FUNCMAIN(var1) TRIPLES(PREFIX,fnc,var1)
FUNCMAIN(var1) == TRIPLES(PREFIX, "fnc", var1)

(***************************************************************************)
(* Group: Managing Deprecation                                             *)
(***************************************************************************)
\* Mutant of DEPRECATE_SYS: the old function runs the new one without a warning.
DEPRECATE_SYS_NoWarning(OLD_FUNCTION, NEW_FUNCTION) ==
    Assignment(OLD_FUNCTION, [op |-> "code", body |-> <<IfNilThis(NEW_FUNCTION)>>])

\* #define DEPRECATE_SYS(OLD_FUNCTION,NEW_FUNCTION) OLD_FUNCTION = {
\*     WARNING('Deprecated function used: OLD_FUNCTION (new: NEW_FUNCTION) in ADDON');
\*     if (isNil "_this") then { call NEW_FUNCTION } else { _this call NEW_FUNCTION }; }
DEPRECATE_SYS(OLD_FUNCTION, NEW_FUNCTION) ==
    Assignment(OLD_FUNCTION,
               [op |-> "code",
                body |-> WARNING(Lit("Deprecated function used: " \o OLD_FUNCTION
                                     \o " (new: " \o NEW_FUNCTION \o ") in " \o ADDON))
                         \o <<IfNilThis(NEW_FUNCTION)>>])

\* #define DEPRECATE(OLD_FUNCTION,NEW_FUNCTION)
\*     DEPRECATE_SYS(DOUBLES(PREFIX,OLD_FUNCTION),DOUBLES(PREFIX,NEW_FUNCTION))
DEPRECATE(OLD_FUNCTION, NEW_FUNCTION) ==
    DEPRECATE_SYS(DOUBLES(PREFIX, OLD_FUNCTION), DOUBLES(PREFIX, NEW_FUNCTION))

\* #define OBSOLETE_SYS(OLD_FUNCTION,COMMAND_CODE) OLD_FUNCTION = {
\*     WARNING('Obsolete function used: (use: OLD_FUNCTION) in ADDON');
\*     if (isNil "_this") then { call COMMAND_CODE } else { _this call COMMAND_CODE }; }
OBSOLETE_SYS(OLD_FUNCTION, COMMAND_CODE) ==
    Assignment(OLD_FUNCTION,
               [op |-> "code",
                body |-> WARNING(Lit("Obsolete function used: (use: " \o OLD_FUNCTION
                                     \o ") in " \o ADDON))
                         \o <<IfNilThis(COMMAND_CODE)>>])

\* #define OBSOLETE(OLD_FUNCTION,COMMAND_CODE)
\*     OBSOLETE_SYS(DOUBLES(PREFIX,OLD_FUNCTION),COMMAND_CODE)
OBSOLETE(OLD_FUNCTION, COMMAND_CODE) ==
    OBSOLETE_SYS(DOUBLES(PREFIX, OLD_FUNCTION), COMMAND_CODE)

(***************************************************************************)
(* A script that deprecates functions and then has them called             *)
(***************************************************************************)
\* The global variables after name = value
Assign(g, name, value) ==
    [k \in DOMAIN g \cup {name} |-> IF k = name THEN value ELSE g[k]]

\* Run an assignment the macro invocation `inv` expanded to.
Install(inv, a) ==
    /\ globals' = Assign(globals, a.name, a.value)
    /\ last' = [inv EXCEPT !.fn = a.name]
    /\ line' = line + 1
    /\ UNCHANGED <<hdr, rpt, newCalls, oldCalls>>

\* The global variables after one statement of an expansion.
Step(g, s) ==
    CASE s.op = "assign" -> Assign(g, s.name, s.value)
      [] s.op = "ifNil" ->
            IF s.name \in DOMAIN g THEN g ELSE Assign(g, s.then.name, s.then.value)
      [] s.op = "publicVariable" ->
            [g EXCEPT ![s.name] = [@ EXCEPT !.public = TRUE]]
      [] s.op = "ifCount" ->
            IF Len(s.array.v) > s.index
            THEN Assign(g, s.name, s.array.v[s.index + 1]) ELSE g
      [] s.op = "setVariable" ->
            [g EXCEPT ![s.name] =
                [@ EXCEPT !.variables = Assign(@, s.key, s.value)]]

RECURSIVE After(_, _)
After(g, stmts) == IF stmts = <<>> THEN g ELSE After(Step(g, Head(stmts)), Tail(stmts))

\* Run the statements the macro invocation `inv` expanded to.
InstallAll(inv, stmts) ==
    /\ globals' = After(globals, stmts)
    /\ last' = [inv EXCEPT !.fn = stmts[1].name]
    /\ line' = line + 1
    /\ UNCHANGED <<hdr, rpt, newCalls, oldCalls>>

\* The values a caller passes as _this; NIL is a call without an argument.
ThisValues == {NIL, "frog"}

RunDEPRECATE_SYS ==
    /\ pc = "script" /\ line < MaxCalls
    /\ Install([NoStatement EXCEPT !.macro = "DEPRECATE_SYS"],
               DEPRECATE_SYS("CBA_fnc_frog", "CBA_fnc_fish"))

RunDEPRECATE ==
    /\ pc = "script" /\ line < MaxCalls
    /\ Install([NoStatement EXCEPT !.macro = "DEPRECATE"],
               DEPRECATE("fnc_frog", "fnc_fish"))

RunOBSOLETE_SYS ==
    /\ pc = "script" /\ line < MaxCalls
    /\ Install([NoStatement EXCEPT !.macro = "OBSOLETE_SYS"],
               OBSOLETE_SYS("CBA_fMyWeapon", "{ currentWeapon player }"))

RunOBSOLETE ==
    /\ pc = "script" /\ line < MaxCalls
    /\ Install([NoStatement EXCEPT !.macro = "OBSOLETE"],
               OBSOLETE("fMyWeapon", "{ currentWeapon player }"))

\* A caller uses an old function: `call f` or `this call f`.
CallOld ==
    /\ pc = "script" /\ line < MaxCalls
    /\ \E f \in DOMAIN globals, this \in ThisValues :
          /\ globals[f].op = "code"
          /\ LET r == Exec(globals[f].body, this)
             IN  /\ rpt' = rpt \o r.made
                 /\ newCalls' = newCalls \o r.called
                 /\ last' = [NoStatement EXCEPT !.macro = "call", !.fn = f,
                                !.this = this, !.made = r.made, !.evals = r.evals,
                                !.called = r.called, !.ret = r.ret]
          /\ oldCalls' = Append(oldCalls, [fn |-> f, this |-> this])
    /\ line' = line + 1
    /\ UNCHANGED <<hdr, globals>>

InitDeprecate == \E pre \in SUBSET (DebugModes \cup {"THIS_FILE"}) :
                    Start(pre, "SPON", "FrogDancing")

NextDeprecate ==
    Include \/ RunDEPRECATE_SYS \/ RunDEPRECATE \/ RunOBSOLETE_SYS \/ RunOBSOLETE
            \/ CallOld

SpecDeprecate == InitDeprecate /\ [][NextDeprecate]_vars

(***************************************************************************)
(* A script that prepares functions and global variables and uses them     *)
(***************************************************************************)
Functions == {"frog", "fish"}
Variables == {"frog"}

\* The values a script gives its global variables.
Values == <<Num(12), List(<<1, 2, 3, 4, 3, 8>>)>>

\* PREP(f);
RunPREP ==
    /\ pc = "script" /\ line < MaxPreps
    /\ \E f \in Functions :
          Install([NoStatement EXCEPT !.macro = "PREP", !.msg = f], PREP(f))

\* PREPMAIN(f);
RunPREPMAIN ==
    /\ pc = "script" /\ line < MaxPreps
    /\ \E f \in Functions :
          Install([NoStatement EXCEPT !.macro = "PREPMAIN", !.msg = f], PREPMAIN(f))

\* GVAR(v) = 12;
SetGVAR ==
    /\ pc = "script" /\ line < MaxPreps
    /\ \E v \in Variables, k \in 1..Len(Values) :
          Install([NoStatement EXCEPT !.macro = "GVAR", !.msg = v],
                  Assignment(GVAR(v), Values[k]))

\* GVARMAIN(v) = 12;
SetGVARMAIN ==
    /\ pc = "script" /\ line < MaxPreps
    /\ \E v \in Variables :
          Install([NoStatement EXCEPT !.macro = "GVARMAIN", !.msg = v],
                  Assignment(GVARMAIN(v), Num(12)))

\* ISNIL(v,0);
RunISNIL ==
    /\ pc = "script" /\ line < MaxPreps
    /\ \E v \in Variables :
          InstallAll([NoStatement EXCEPT !.macro = "ISNIL", !.msg = v],
                     <<ISNIL(v, Num(0))>>)

\* ISNILMAIN(v,0);
RunISNILMAIN ==
    /\ pc = "script" /\ line < MaxPreps
    /\ \E v \in Variables :
          InstallAll([NoStatement EXCEPT !.macro = "ISNILMAIN", !.msg = v],
                     <<ISNILMAIN(v, Num(0))>>)

\* CREATELOGIC; CREATELOGICLOCAL; CREATELOGICGLOBAL; CREATELOGICGLOBALTEST;
RunCREATELOGIC ==
    /\ pc = "script" /\ line < MaxPreps
    /\ \/ InstallAll([NoStatement EXCEPT !.macro = "CREATELOGIC"], CREATELOGIC)
       \/ InstallAll([NoStatement EXCEPT !.macro = "CREATELOGICLOCAL"], CREATELOGICLOCAL)
       \/ InstallAll([NoStatement EXCEPT !.macro = "CREATELOGICGLOBAL"], CREATELOGICGLOBAL)
       \/ InstallAll([NoStatement EXCEPT !.macro = "CREATELOGICGLOBALTEST"],
                     CREATELOGICGLOBALTEST)

\* CREATELOGICMAIN;
RunCREATELOGICMAIN ==
    /\ pc = "script" /\ line < MaxPreps
    /\ InstallAll([NoStatement EXCEPT !.macro = "CREATELOGICMAIN"], CREATELOGICMAIN)

\* SETVAR ["v", 12]; once CREATELOGIC has made the component's logic
RunSETVAR ==
    /\ pc = "script" /\ line < MaxPreps
    /\ DOUBLES(PREFIX, COMPONENT) \in DOMAIN globals
    /\ globals[DOUBLES(PREFIX, COMPONENT)].op = "logic"
    /\ \E v \in Variables :
          InstallAll([NoStatement EXCEPT !.macro = "SETVAR", !.msg = v],
                     <<SETVAR(v, Num(12))>>)

\* SETVARMAIN ["v", 12]; once CREATELOGICMAIN has made the main logic
RunSETVARMAIN ==
    /\ pc = "script" /\ line < MaxPreps
    /\ DOUBLES(PREFIX, MAINLOGIC) \in DOMAIN globals
    /\ globals[DOUBLES(PREFIX, MAINLOGIC)].op = "logic"
    /\ \E v \in Variables :
          InstallAll([NoStatement EXCEPT !.macro = "SETVARMAIN", !.msg = v],
                     <<SETVARMAIN(v, Num(12))>>)

\* IFCOUNT(_this,1,GVAR(v)); in a function called with one value or with two
RunIFCOUNT ==
    /\ pc = "script" /\ line < MaxPreps
    /\ \E v \in Variables, n \in 1..2 :
          InstallAll([NoStatement EXCEPT !.macro = "IFCOUNT", !.msg = v, !.n = n],
                     <<IFCOUNT(List([i \in 1..n |-> Num(6 + i)]), 1, GVAR(v))>>)

\* EXPLODE_2(_this,GVAR(v),GVARMAIN(v)); in a function called with two values
RunEXPLODE ==
    /\ pc = "script" /\ line < MaxPreps
    /\ \E v \in Variables :
          LET set == EXPLODE_n(2, Array(<<Num(7), Num(8)>>), <<GVAR(v), GVARMAIN(v)>>)
          IN  InstallAll([NoStatement EXCEPT !.macro = "EXPLODE", !.msg = v, !.n = 2],
                         [i \in 1..Len(set) |-> Assignment(set[i].name, set[i].v)])

\* PREP_SYS(PREFIX,COMPONENT_F,f);
RunPREP_SYS ==
    /\ pc = "script" /\ line < MaxPreps
    /\ \E f \in Functions :
          Install([NoStatement EXCEPT !.macro = "PREP_SYS", !.msg = f],
                  PREP_SYS(PREFIX, COMPONENT_F, f))

\* INC(GVAR(v)); DEC(GVAR(v)); ADD(GVAR(v),3); SUB(GVAR(v),3); on a number
RunArithmetic ==
    /\ pc = "script" /\ line < MaxPreps
    /\ \E v \in Variables :
          /\ GVAR(v) \in DOMAIN globals
          /\ globals[GVAR(v)].op = "num"
          /\ \/ Install([NoStatement EXCEPT !.macro = "INC", !.msg = v], INC(GVAR(v)))
             \/ Install([NoStatement EXCEPT !.macro = "DEC", !.msg = v], DEC(GVAR(v)))
             \/ Install([NoStatement EXCEPT !.macro = "ADD", !.msg = v],
                        ADD(GVAR(v), Num(3)))
             \/ Install([NoStatement EXCEPT !.macro = "SUB", !.msg = v],
                        SUB(GVAR(v), Num(3)))

\* ADD(GVAR(v),[3]); SUB(GVAR(v),[3]); REM(GVAR(v),3); PUSH(GVAR(v),3); on an array
RunArray ==
    /\ pc = "script" /\ line < MaxPreps
    /\ \E v \in Variables :
          /\ GVAR(v) \in DOMAIN globals
          /\ globals[GVAR(v)].op = "array"
          /\ \/ Install([NoStatement EXCEPT !.macro = "ADD", !.msg = v],
                        ADD(GVAR(v), List(<<3>>)))
             \/ Install([NoStatement EXCEPT !.macro = "SUB", !.msg = v],
                        SUB(GVAR(v), List(<<3>>)))
             \/ Install([NoStatement EXCEPT !.macro = "REM", !.msg = v],
                        REM(GVAR(v), 3))
             \/ Install([NoStatement EXCEPT !.macro = "PUSH", !.msg = v],
                        PUSH(GVAR(v), 3))

\* call FUNC(f): runs the compiled file the variable holds.
CallFUNC ==
    /\ pc = "script" /\ line < MaxPreps
    /\ \E f \in Functions :
          /\ FUNC(f) \in DOMAIN globals
          /\ globals[FUNC(f)].op = "compile"
          /\ last' = [NoStatement EXCEPT !.macro = "FUNC", !.msg = f, !.fn = FUNC(f),
                                         !.ret = globals[FUNC(f)].file]
    /\ line' = line + 1
    /\ UNCHANGED <<hdr, rpt, globals, newCalls, oldCalls>>

\* call FUNCMAIN(f): on first use the variable holds the code PREPMAIN_SYS assigned,
\* which compiles the file into the same variable and then calls it.
CallFUNCMAIN ==
    /\ pc = "script" /\ line < MaxPreps
    /\ \E f \in Functions :
          /\ FUNCMAIN(f) \in DOMAIN globals
          /\ globals[FUNCMAIN(f)].op \in {"code", "compile"}
          /\ LET g == globals[FUNCMAIN(f)]
                 after == IF g.op = "code"
                          THEN Assign(globals, g.body[1].name, g.body[1].value)
                          ELSE globals
                 callee == IF g.op = "code" THEN g.body[2].then.fn ELSE FUNCMAIN(f)
             IN  /\ globals' = after
                 /\ last' = [NoStatement EXCEPT !.macro = "FUNCMAIN", !.msg = f,
                                !.fn = FUNCMAIN(f),
                                !.ret = IF callee \in DOMAIN after
                                           /\ after[callee].op = "compile"
                                        THEN after[callee].file ELSE NIL]
    /\ line' = line + 1
    /\ UNCHANGED <<hdr, rpt, newCalls, oldCalls>>

InitNames ==
    \E pre \in SUBSET {"MODULAR", "MAINPREFIX", "SUBPREFIX", "MAINLOGIC"},
       prefix \in {"SPON", "CBA"}, component \in {"FrogDancing", "main"} :
        Start(pre, prefix, component)

NextNames ==
    Include \/ RunPREP \/ RunPREPMAIN \/ SetGVAR \/ SetGVARMAIN \/ CallFUNC
            \/ CallFUNCMAIN \/ RunISNIL \/ RunISNILMAIN \/ RunCREATELOGIC
            \/ RunCREATELOGICMAIN \/ RunArithmetic \/ RunArray \/ RunSETVAR
            \/ RunSETVARMAIN \/ RunIFCOUNT \/ RunEXPLODE \/ RunPREP_SYS

SpecNames == InitNames /\ [][NextNames]_vars

(***************************************************************************)
(* Properties                                                              *)
(***************************************************************************)
Included == pc = "script"
Full == "DEBUG_MODE_FULL" \in defined
Normal == "DEBUG_MODE_NORMAL" \in defined
Minimal == "DEBUG_MODE_MINIMAL" \in defined

\* The file and the line a record of the statement run last must carry.
FileOfScript == IF "THIS_FILE" \in predefined THEN "fnc_dance"
                ELSE "x\\spon\\addons\\frogdancing\\fnc_dance.sqf"
LineOfLast == ToString(line)

\* The statement run last made exactly one call, to fn, and that call is the
\* newest record of the RPT log.
MadeOne(fn) ==
    /\ Len(last.made) = 1
    /\ last.made[1].fn = fn
    /\ Len(rpt) >= 1
    /\ rpt[Len(rpt)] = last.made[1]

MadeNothing == last.made = <<>> /\ last.evals = 0

\* C1: with no debug mode defined before inclusion the header assumes
\* DEBUG_MODE_NORMAL: NORMAL and MINIMAL are defined and FULL is not, so WARNING,
\* ERROR and ERROR_WITH_TITLE record their call while LOG and TRACE_n do nothing.
C1_DefaultIsNormal ==
    (Included /\ predefined \cap DebugModes = {}) =>
        /\ defined \cap DebugModes = {"DEBUG_MODE_NORMAL", "DEBUG_MODE_MINIMAL"}
        /\ macros = [m \in {"LOG", "WARNING", "TRACE"} |->
                        IF m = "WARNING" THEN "on" ELSE "off"]
        /\ last.macro = "WARNING" => MadeOne("CBA_fnc_log")
        /\ last.macro \in {"ERROR", "ERROR_WITH_TITLE"} => MadeOne("CBA_fnc_error")
        /\ last.macro \in {"LOG", "TRACE"} => MadeNothing

C1_Witness ==
    /\ Included /\ predefined = {}
    /\ macros["WARNING"] = "on"
    /\ last.macro = "TRACE" /\ last.n = 8 /\ last.made = <<>>
    /\ rpt = <<>>

\* The level in effect given a set of defined symbols: 3 full, 2 normal, 1 minimal.
Highest(S) == IF "DEBUG_MODE_FULL" \in S THEN 3
              ELSE IF "DEBUG_MODE_NORMAL" \in S THEN 2 ELSE 1

\* C2: whatever subset of the debug modes is defined before inclusion, afterwards
\* the level in effect is the highest one that was defined: MINIMAL is defined,
\* FULL implies NORMAL, NORMAL implies MINIMAL, FULL is defined only if it was
\* predefined, and with only MINIMAL predefined NORMAL stays undefined.
C2_HighestLevelWins ==
    Included =>
        /\ Minimal
        /\ Full => Normal
        /\ Normal => Minimal
        /\ Full <=> "DEBUG_MODE_FULL" \in predefined
        /\ predefined \subseteq defined
        /\ predefined \cap DebugModes # {} => Highest(defined) = Highest(predefined)
        /\ predefined \cap DebugModes = {"DEBUG_MODE_MINIMAL"} => ~Normal

C2_Witness ==
    /\ Included
    /\ predefined = {"DEBUG_MODE_MINIMAL"}
    /\ defined \cap DebugModes = {"DEBUG_MODE_MINIMAL"}
    /\ macros["WARNING"] = "off"

\* The text TRACE_n logs: the message, then name=value for each variable in order.
RECURSIVE ValuesText(_, _)
ValuesText(n, nilAt) ==
    IF n = 0 THEN ""
    ELSE ValuesText(n - 1, nilAt) \o (IF n = 1 THEN "" ELSE ", ")
         \o ArgNames[n] \o "=" \o (IF n = nilAt THEN "any" ELSE ToString(n))

\* The messages WARNING can have logged in a script of debugging macros.
WarningTexts == {"WARNING: " \o m : m \in Messages}

\* C3: LOG and TRACE_n run only with DEBUG_MODE_FULL: then the invocation makes
\* exactly one call to CBA_fnc_log with the file, the line and the message (for
\* TRACE_n the message followed by the n values in the order A..H); at any other
\* level it makes no call, evaluates no argument and leaves nothing in the log.
\* The same holds of the TRACE_n that ends the expansion of PARAMS_n.
C3_LogTraceOnlyAtFull ==
    /\ last.macro \in {"LOG", "TRACE", "PARAMS"} =>
          IF Full
          THEN /\ MadeOne("CBA_fnc_log")
               /\ last.evals >= 1
               /\ last.made[1].args =
                    <<FileOfScript, LineOfLast,
                      IF last.macro = "LOG" THEN last.msg
                      ELSE last.msg \o ": " \o ValuesText(last.n, last.nilAt)>>
          ELSE MadeNothing
    /\ (Included /\ ~Full) =>
          \A i \in 1..Len(rpt) :
              rpt[i].fn = "CBA_fnc_log" => rpt[i].args[3] \in WarningTexts

C3_Witness ==
    /\ Full
    /\ last.macro = "TRACE" /\ last.n = 8 /\ last.nilAt = 8
    /\ Len(rpt) = 1
    /\ rpt[1].args[3] =
         "After takeoff: _a=1, _b=2, _c=3, _d=4, _e=5, _f=6, _g=7, _h=any"

\* C4: WARNING runs only with DEBUG_MODE_NORMAL or higher: then it makes exactly
\* one call to CBA_fnc_log whose message is 'WARNING: ' followed by MESSAGE; with
\* only DEBUG_MODE_MINIMAL it expands to nothing and the log holds no warning.
C4_WarningAtNormal ==
    /\ last.macro = "WARNING" =>
          IF Normal
          THEN /\ MadeOne("CBA_fnc_log")
               /\ last.made[1].args =
                    <<FileOfScript, LineOfLast, "WARNING: " \o last.msg>>
          ELSE MadeNothing
    /\ (Included /\ ~Normal) =>
          \A i \in 1..Len(rpt) : rpt[i].fn = "CBA_fnc_error"

C4_Witness ==
    /\ Normal /\ ~Full
    /\ last.macro = "WARNING"
    /\ Len(rpt) = 1
    /\ rpt[1].args[3] = "WARNING: Value of frog not found"

\* C5: ERROR and ERROR_WITH_TITLE are enabled at every debug level: each
\* invocation makes exactly one call to CBA_fnc_error with the file, the line, a
\* title and the message; the title of ERROR is "ERROR", that of ERROR_WITH_TITLE
\* is its TITLE argument (so "Assertion failed!" when ASSERTION_ERROR invokes it).
C5_ErrorsAlways ==
    /\ last.macro \in {"ERROR", "ERROR_WITH_TITLE"} =>
          /\ MadeOne("CBA_fnc_error")
          /\ last.made[1].args =
               <<FileOfScript, LineOfLast,
                 IF last.macro = "ERROR" THEN "ERROR" ELSE last.title,
                 last.msg>>
    /\ last.macro = "ASSERTION_ERROR" =>
          /\ MadeOne("CBA_fnc_error")
          /\ last.made[1].args =
               <<FileOfScript, LineOfLast, "Assertion failed!", last.msg>>

C5_Witness ==
    /\ defined \cap DebugModes = {"DEBUG_MODE_MINIMAL"}
    /\ last.macro = "ERROR_WITH_TITLE"
    /\ Len(rpt) = 1
    /\ rpt[1].args[3] = "Value not found"
    /\ rpt[1].args[4] = "Value of frog not found"

\* The replacement each old function of the deprecation script stands for.
NewOf(f) ==
    CASE f = "CBA_fnc_frog" -> "CBA_fnc_fish"
      [] f = "SPON_fnc_frog" -> "SPON_fnc_fish"
      [] f = "CBA_fMyWeapon" -> "{ currentWeapon player }"
      [] f = "SPON_fMyWeapon" -> "{ currentWeapon player }"

\* The warning a call of each old function is documented to leave in the RPT log.
WarningOf(f) ==
    CASE f = "CBA_fnc_frog" ->
            "WARNING: Deprecated function used: CBA_fnc_frog (new: CBA_fnc_fish) in SPON_FrogDancing"
      [] f = "SPON_fnc_frog" ->
            "WARNING: Deprecated function used: SPON_fnc_frog (new: SPON_fnc_fish) in SPON_FrogDancing"
      [] f = "CBA_fMyWeapon" ->
            "WARNING: Obsolete function used: (use: CBA_fMyWeapon) in SPON_FrogDancing"
      [] f = "SPON_fMyWeapon" ->
            "WARNING: Obsolete function used: (use: SPON_fMyWeapon) in SPON_FrogDancing"

WarningRecords == {i \in 1..Len(rpt) : rpt[i].fn = "CBA_fnc_log"}

\* C6 as stated: a function installed by DEPRECATE(_SYS) or OBSOLETE(_SYS) writes
\* one warning record per call, whatever debug level is in effect.
C6_WarningPerCallAtEveryLevel ==
    Cardinality(WarningRecords) = Len(oldCalls)

\* C6 as amended: with DEBUG_MODE_NORMAL or higher in effect every call of the old
\* function writes one warning record, so the records equal the calls in number
\* and order; with only DEBUG_MODE_MINIMAL in effect no record is written.
C6_WarningPerCallAtNormal ==
    Included =>
        IF Normal
        THEN /\ Len(rpt) = Len(oldCalls)
             /\ \A i \in 1..Len(oldCalls) :
                    /\ rpt[i].fn = "CBA_fnc_log"
                    /\ rpt[i].args[1] = FileOfScript
                    /\ rpt[i].args[3] = WarningOf(oldCalls[i].fn)
        ELSE rpt = <<>>

C6_Witness ==
    /\ Normal
    /\ Len(oldCalls) = 2 /\ Len(rpt) = 2
    /\ oldCalls[1].fn = "SPON_fnc_frog"
    /\ oldCalls[2].fn = "CBA_fMyWeapon"

\* C7: at every debug level a call of a function installed by DEPRECATE_SYS or
\* DEPRECATE runs the new function exactly once, with the caller's _this (or with
\* none when the caller gave none), and returns what the new function returned;
\* DEPRECATE does so for PREFIX_old and PREFIX_new.
C7_DeprecatedRunsNew ==
    /\ Len(newCalls) = Len(oldCalls)
    /\ \A i \in 1..Len(oldCalls) :
          newCalls[i] = [fn |-> NewOf(oldCalls[i].fn), this |-> oldCalls[i].this]
    /\ (last.macro = "call" /\ last.fn \in {"CBA_fnc_frog", "SPON_fnc_frog"}) =>
          /\ last.called = <<[fn |-> NewOf(last.fn), this |-> last.this]>>
          /\ last.ret = NewOf(last.fn) \o "("
                        \o (IF last.this = NIL THEN "any" ELSE last.this) \o ")"
    /\ last.macro = "DEPRECATE" => last.fn = "SPON_fnc_frog"
    /\ last.macro = "DEPRECATE_SYS" => last.fn = "CBA_fnc_frog"

C7_Witness ==
    /\ defined \cap DebugModes = {"DEBUG_MODE_MINIMAL"}
    /\ last.macro = "call" /\ last.fn = "SPON_fnc_frog" /\ last.this = NIL
    /\ last.ret = "SPON_fnc_fish(any)"
    /\ Len(newCalls) = 2 /\ newCalls[1].this = "frog"

\* The directory of the component's files: c_COMPONENT in a modular build.
ComponentDir == IF "MODULAR" \in predefined THEN "c_" \o COMPONENT ELSE COMPONENT

\* The path of fnc_f.sqf in the component: MAINPREFIX\PREFIX\SUBPREFIX\dir\fnc_f.sqf,
\* where MAINPREFIX is x and SUBPREFIX is addons unless the including file chose.
FileOf(f) ==
    (IF "MAINPREFIX" \in predefined THEN "z" ELSE "x") \o "\\" \o PREFIX \o "\\"
    \o (IF "SUBPREFIX" \in predefined THEN "mods" ELSE "addons") \o "\\"
    \o ComponentDir \o "\\fnc_" \o f \o ".sqf"

\* C8: generated identifiers agree between definition and use: GVAR(v) is
\* PREFIX_COMPONENT_v and GVARMAIN(v) is PREFIX_v; PREP(f) assigns the variable
\* FUNC(f) names, PREFIX_COMPONENT_fnc_f, compiled from fnc_f.sqf of the
\* component's path; PREPMAIN(f) assigns the variable FUNCMAIN(f) names,
\* PREFIX_fnc_f.
C8_NamesAgree ==
    /\ last.macro = "GVAR" =>
          /\ last.fn = PREFIX \o "_" \o COMPONENT \o "_" \o last.msg
          /\ last.fn \in DOMAIN globals
    /\ last.macro = "GVARMAIN" =>
          /\ last.fn = PREFIX \o "_" \o last.msg
          /\ last.fn \in DOMAIN globals
    /\ last.macro = "PREP" =>
          /\ last.fn = FUNC(last.msg)
          /\ last.fn = PREFIX \o "_" \o COMPONENT \o "_fnc_" \o last.msg
          /\ globals[last.fn] = [op |-> "compile", file |-> FileOf(last.msg)]
    /\ last.macro = "PREPMAIN" =>
          /\ last.fn = FUNCMAIN(last.msg)
          /\ last.fn = PREFIX \o "_fnc_" \o last.msg
          /\ globals[last.fn].op = "code"
    /\ last.macro = "FUNC" => last.ret = FileOf(last.msg)

C8_Witness ==
    /\ predefined = {"MODULAR", "SUBPREFIX"}
    /\ PREFIX = "SPON" /\ COMPONENT = "FrogDancing"
    /\ last.macro = "FUNC" /\ last.msg = "frog"
    /\ last.fn = "SPON_FrogDancing_fnc_frog"
    /\ last.ret = "x\\SPON\\mods\\c_FrogDancing\\fnc_frog.sqf"

====
